---- MODULE Spec2Model ----
(***************************************************************************)
(* A model of the nakimi vault's secret lifecycle: the identity key file,  *)
(* its public-key companion and backup, the encrypted secrets blob, and    *)
(* the ephemeral temp files that decrypt creates.  Every operation is one  *)
(* action; what the external tools and the operating system answer (age,   *)
(* age-keygen, df, shred, the hardware token, write failures) is an input  *)
(* of the action, drawn with \E.                                           *)
(***************************************************************************)
EXTENDS Integers, Sequences, FiniteSets, TLC

\* ------------------------------------------------------------------ bounds
\* key pairs age-keygen can be made to produce (each one is fresh)
NumKeys == 2
\* distinct plaintext payloads
NumData == 1
\* temp file names mkstemp can hand out per prefix
MaxTemp == 1
\* how many hardware-wrap layers a key file may accumulate
MaxDepth == 2

KeyIds == 1..NumKeys
DataIds == 1..NumData
TempIds == 1..MaxTemp

\* ------------------------------------------------------- strings and files
\* A public key string "age1<k>", the empty string, and Python's None.
PubKey(k) == <<"age1", ToString(k)>>
EmptyStr == <<>>
NoneStr == <<"None">>
PubKeys == { PubKey(k) : k \in KeyIds }
\* somebody else's public key, given as an explicit recipient
ForeignPub == <<"age1", "other">>

\* Content of the public-key companion file (absent, or the text it holds).
NoPubFile == <<"nofile">>

StartsWithAge1(s) == Len(s) >= 1 /\ s[1] = "age1"

\* Content of a key-like file (key.txt, key.txt.backup, nakimi-key-*.txt):
\* the key pair it carries (0: none, the file is empty), the number of
\* hardware-wrap layers around it, and whether the outer bytes decode as
\* UTF-8 (plaintext always does; an age ciphertext may or may not).
NoFile == [exists |-> FALSE, kid |-> 0, depth |-> 0, utf8 |-> FALSE]
EmptyFile == [exists |-> TRUE, kid |-> 0, depth |-> 0, utf8 |-> TRUE]
PlainKey(k) == [exists |-> TRUE, kid |-> k, depth |-> 0, utf8 |-> TRUE]

\* The bytes contain "AGE-SECRET-KEY-": exactly the plaintext age identity.
HasMarker(c) == c.exists /\ c.kid # 0 /\ c.depth = 0
\* The key file written by age-keygen carries a "# public key: ..." header.
HasHeader(c) == c.exists /\ c.kid # 0 /\ c.depth = 0

\* age -r <yubikey recipient> applied to the text c; u: the output decodes.
WrapContent(c, u) == [exists |-> TRUE, kid |-> c.kid, depth |-> c.depth + 1, utf8 |-> u]
\* age -d -i <yubikey identity> applied to a blob: the text that was wrapped.
UnwrapContent(c) == [exists |-> TRUE, kid |-> c.kid, depth |-> c.depth - 1, utf8 |-> TRUE]


NoCipher == [exists |-> FALSE, data |-> 0, rcpt |-> EmptyStr, own |-> FALSE]

\* keyFile, pubFile, backupFile: key.txt, key.txt.pub, key.txt.backup.
\* cipherFile: the encrypted blob.  tmpSecrets, tmpKeys: the names of the
\* nakimi-secrets-* and nakimi-key-* files that exist.  genCount: key pairs
\* generated so far.  firstKey, firstPub: what the first generate_key call
\* that returned wrote and returned.  ret: the outcome of the last operation.
VARIABLES keyFile, pubFile, backupFile, cipherFile, tmpSecrets, tmpKeys,
          genCount, firstKey, firstPub, ret

vaultVars == <<keyFile, pubFile, backupFile, cipherFile, tmpSecrets, tmpKeys,
               genCount, firstKey, firstPub, ret>>

\* The host the vault runs on.  ml: the last mlock_file call, what the
\* system answered and what the call returned.
\* host: whether the ykman tool is installed and a token is plugged in.
\* guard: one YubiKeyManager instance, its configuration flag and its two
\* cached probe results.  gret: the outcome of the last call on it.
VARIABLES ml, host, guard, gret

\* tempEnv: the platform and the state of its RAM-backed directory.
\* markerFile: whether /dev/shm/.nakimi-test exists.  probePc: where each
\* process calling get_secure_temp_dir stands, or what its call returned.
VARIABLES tempEnv, markerFile, probePc

\* tmpFiles: the temp files that exist, each with its kind (secrets, key or
\* identity), its name, the session that created it, the session that last
\* wrote it (0: none), its permission bits and whether it holds plaintext.
\* pc: where each session's decrypt call stands.  loc: the temp paths the
\* call holds (0: none).
VARIABLES tmpFiles, pc, loc

\* mockKeys: the mock_encrypted_keys dictionary of one MockYubiKeyManager,
\* as the sequence of keys stored under mock-key-0, mock-key-1, ...
\* mockIssued: every (blob, key) pair an encrypt_age_key call on it returned.
\* mret: the outcome of the last call on it.
VARIABLES mockKeys, mockIssued, mret

\* environ: os.environ, one entry per NAKIMI_* variable (None: unset).
\* configFile: the key=value lines of the config file (None: no such line).
\* envChanges: how often the two were changed.  config: the module-level
\* _config of nakimi.core.config, with the snapshot it was resolved from.
\* cret: the last get_config call.  vret: the last Vault constructed.
VARIABLES environ, configFile, envChanges, config, cret, vret

\* mcpCommands: the _commands registry of the plugin manager the MCP server
\* was created with, as the set of full command names.  mcpRet: the last
\* call_tool, the command its tool name was built from and the command it
\* was dispatched to.
VARIABLES mcpCommands, mcpRet

\* One nakimi session process.  csPc: where cmd_session stands.  csMode:
\* --shell, --exec or neither.  csTemp: whether the temp secrets file of the
\* session exists.  csOut: what the session did so far and how it ended.
VARIABLES csPc, csMode, csTemp, csOut

\* plainFile: the plaintext file the user hands to "nakimi encrypt".
VARIABLES plainFile

guardVars == <<host, guard, gret>>
mockVars == <<mockKeys, mockIssued, mret>>
configVars == <<environ, configFile, envChanges, config, cret, vret>>
mcpVars == <<mcpCommands, mcpRet>>
cliVars == <<csPc, csMode, csTemp, csOut>>
extVars == <<mockVars, configVars, mcpVars, cliVars, plainFile>>
probeVars == <<tempEnv, markerFile, probePc>>
sessVars == <<tmpFiles, pc, loc>>
hostVars == <<ml, guardVars, probeVars, sessVars, extVars>>

vars == <<vaultVars, hostVars>>

\* What the last operation did: its name, how it ended, the temp files it
\* created (0: none), whether the vault had a hardware guard, how the key
\* was resolved, the values it returned, what secure_delete was told and
\* did, and whether the input file of the call was missing.
NoRet == [op |-> "none", status |-> "ok", tmpS |-> 0, tmpK |-> 0, yk |-> FALSE, route |-> "none",
          pub |-> NoneStr, data |-> 0, existed |-> FALSE, df |-> "none",
          shred |-> "none", calls |-> <<>>, noInput |-> FALSE]

VaultInit ==
    /\ keyFile = NoFile
    /\ pubFile = NoPubFile
    /\ backupFile = NoFile
    /\ cipherFile = NoCipher
    /\ tmpSecrets = {}
    /\ tmpKeys = {}
    /\ genCount = 0
    /\ firstKey = NoFile
    /\ firstPub = NoneStr
    /\ ret = NoRet

\* ------------------------------------------------------------ secure erase
DfOutcomes == {"tmpfs", "other", "fail"}
ShredOutcomes == {"ok", "missing", "nonzero"}
\* what df and shred answer while an operation releases its own temp files;
\* every answer of each tool occurs
EraseEnvs ==
    { e \in [df : DfOutcomes, shred : ShredOutcomes] :
        \/ e.df = "tmpfs" /\ e.shred = "ok"
        \/ e.df = "other" /\ e.shred \in {"ok", "missing"}
        \/ e.df = "fail" /\ e.shred = "nonzero" }

\* is_ram_disk: "tmpfs" in df's output; a failing df answers False.
is_ram_disk(df) == df = "tmpfs"

\* secure_delete unlinking a persistent-storage file without trying shred
secure_delete_plain_unlink(existed, df, shred) ==
    IF ~existed THEN <<>> ELSE <<"df", "unlink">>

\* secure_delete that never asks whether the path is RAM-backed
secure_delete_always_shred(existed, df, shred) ==
    IF ~existed THEN <<>>
    ELSE IF shred = "ok" THEN <<"shred">>
    ELSE <<"shred", "unlink">>

\* secure_delete without the unlink fallback after a failed shred
secure_delete_no_fallback(existed, df, shred) ==
    IF ~existed THEN <<>>
    ELSE IF is_ram_disk(df) THEN <<"df", "unlink">>
    ELSE <<"df", "shred">>

\* secure_delete: the external steps it runs, in order, for a path that
\* exists or not, given what df and shred answer.
secure_delete(existed, df, shred) ==
    IF ~existed THEN <<>>
    ELSE IF is_ram_disk(df) THEN <<"df", "unlink">>
    ELSE IF shred = "ok" THEN <<"df", "shred">>
    ELSE <<"df", "shred", "unlink">>

\* Whether the path is gone once those steps ran: unlink removes it, and so
\* does a shred -u that exits zero; a shred that is missing or fails does not.
GoneAfter(existed, calls, shred) ==
    \/ ~existed
    \/ \E i \in 1..Len(calls) :
          \/ calls[i] = "unlink"
          \/ calls[i] = "shred" /\ shred = "ok"

\* ------------------------------------------------------------- public key
\* f.write(public_key + "\n") and f.read().strip()
WriteLine(s) == Append(s, "\n")
RECURSIVE Strip(_)
Strip(s) ==
    IF Len(s) = 0 THEN s
    ELSE IF s[Len(s)] = "\n" THEN Strip(SubSeq(s, 1, Len(s) - 1))
    ELSE IF s[1] = "\n" THEN Strip(Tail(s))
    ELSE s

\* age-keygen's stderr names the public key either as "Public key: ..."
\* (the tool) or as "# public key: ..." (the test double); only the second
\* contains the substring "public key:" that generate_key looks for.
StderrFormats == {"upper", "lower"}

\* the extraction without the fallback to the key file's header
ExtractPublicKeyStderrOnly(fmt, key) ==
    IF fmt = "lower" THEN PubKey(key.kid) ELSE NoneStr

\* generate_key's extraction of the public key: from stderr, else from the
\* "# public key:" header of the key file just written, else None.
ExtractPublicKey(fmt, key) ==
    IF fmt = "lower" THEN PubKey(key.kid)
    ELSE IF key.utf8 /\ HasHeader(key) THEN PubKey(key.kid)
    ELSE NoneStr

\* get_public_key returning the .pub file's text without strip()
get_public_key_no_strip(pub, key) ==
    IF pub # NoPubFile THEN [status |-> "ok", value |-> pub]
    ELSE IF ~key.exists THEN [status |-> "VaultCryptoError", value |-> NoneStr]
    ELSE IF ~key.utf8 THEN [status |-> "UnicodeDecodeError", value |-> NoneStr]
    ELSE IF HasHeader(key) THEN [status |-> "ok", value |-> PubKey(key.kid)]
    ELSE [status |-> "VaultCryptoError", value |-> NoneStr]

\* get_public_key: the .pub file if it exists, else the key file's header.
get_public_key(pub, key) ==
    IF pub # NoPubFile THEN [status |-> "ok", value |-> Strip(pub)]
    ELSE IF ~key.exists THEN [status |-> "VaultCryptoError", value |-> NoneStr]
    ELSE IF ~key.utf8 THEN [status |-> "UnicodeDecodeError", value |-> NoneStr]
    ELSE IF HasHeader(key) THEN [status |-> "ok", value |-> PubKey(key.kid)]
    ELSE [status |-> "VaultCryptoError", value |-> NoneStr]

Raise(op, status) == [NoRet EXCEPT !.op = op, !.status = status]

GenFailures == {"none", "keygen", "pubopen"}

GenerateInputs ==
    { i \in [ageOk : BOOLEAN, fmt : StderrFormats, fail : GenFailures] :
        (~i.ageOk \/ i.fail = "keygen") => i.fmt = "upper" /\ (i.ageOk \/ i.fail = "none") }

\* generate_key without the check that the key file already exists
generate_key_overwrite ==
    \E i \in GenerateInputs :
       /\ UNCHANGED <<backupFile, cipherFile, tmpSecrets, tmpKeys, hostVars>>
       /\ IF ~i.ageOk \/ i.fail = "keygen"
          THEN /\ ret' = Raise("generate_key", "VaultCryptoError")
               /\ UNCHANGED <<keyFile, pubFile, genCount, firstKey, firstPub>>
          ELSE LET key == PlainKey(genCount + 1)
                   pk == ExtractPublicKey(i.fmt, key)
                   ok == pk = NoneStr \/ i.fail = "none"
               IN /\ genCount < NumKeys
                  /\ genCount' = genCount + 1
                  /\ keyFile' = key
                  /\ pubFile' = IF pk = NoneStr \/ i.fail = "pubopen" THEN pubFile
                                ELSE WriteLine(pk)
                  /\ ret' = IF ok THEN [NoRet EXCEPT !.op = "generate_key", !.pub = pk]
                            ELSE Raise("generate_key", "OSError")
                  /\ firstKey' = IF ok /\ ~firstKey.exists THEN key ELSE firstKey
                  /\ firstPub' = IF ok /\ firstPub = NoneStr THEN pk ELSE firstPub

\* Vault.generate_key; age-keygen writes a key pair never seen before.
generate_key ==
    \E i \in GenerateInputs :
       /\ UNCHANGED <<backupFile, cipherFile, tmpSecrets, tmpKeys, hostVars>>
       /\ IF ~i.ageOk \/ keyFile.exists \/ i.fail = "keygen"
          THEN /\ ret' = Raise("generate_key", "VaultCryptoError")
               /\ UNCHANGED <<keyFile, pubFile, genCount, firstKey, firstPub>>
          ELSE LET key == PlainKey(genCount + 1)
                   pk == ExtractPublicKey(i.fmt, key)
                   ok == pk = NoneStr \/ i.fail = "none"
               IN /\ genCount < NumKeys
                  /\ genCount' = genCount + 1
                  /\ keyFile' = key
                  /\ pubFile' = IF pk = NoneStr \/ i.fail = "pubopen" THEN pubFile
                                ELSE WriteLine(pk)
                  /\ ret' = IF ok THEN [NoRet EXCEPT !.op = "generate_key", !.pub = pk]
                            ELSE Raise("generate_key", "OSError")
                  /\ firstKey' = IF ok /\ ~firstKey.exists THEN key ELSE firstKey
                  /\ firstPub' = IF ok /\ firstPub = NoneStr THEN pk ELSE firstPub

\* cmd_init on a vault that already has a key: prints get_public_key().
show_public_key ==
    /\ keyFile.exists
    /\ LET r == get_public_key(pubFile, keyFile)
       IN ret' = [NoRet EXCEPT !.op = "get_public_key", !.status = r.status, !.pub = r.value]
    /\ UNCHANGED <<keyFile, pubFile, backupFile, cipherFile, tmpSecrets, tmpKeys,
                   genCount, firstKey, firstPub, hostVars>>

\* ---------------------------------------------------------------- encrypt
\* age -r <recipient>: succeeds when the tool runs and the recipient is a
\* public key.
Recipients == {NoneStr, ForeignPub}

\* pub_key = recipient or self.get_public_key()
ResolveRecipient(recipient, own) ==
    IF recipient # NoneStr /\ recipient # EmptyStr THEN [status |-> "ok", value |-> recipient]
    ELSE own

EncryptInputs ==
    { i \in [ageOk : BOOLEAN, inputExists : BOOLEAN, data : DataIds,
             recipient : Recipients, toolOk : BOOLEAN] :
        (~i.ageOk \/ ~i.inputExists)
            => i.ageOk # i.inputExists /\ i.data = 1 /\ i.recipient = NoneStr /\ i.toolOk }

\* Vault.encrypt of a plaintext file holding i.data to <input>.age: the
\* encrypted blob afterwards, and the outcome.
DoEncrypt(i) ==
    IF ~i.ageOk \/ ~i.inputExists
    THEN [cipher |-> cipherFile,
          ret |-> [Raise("encrypt", "VaultCryptoError") EXCEPT !.noInput = ~i.inputExists]]
    ELSE LET r == ResolveRecipient(i.recipient, get_public_key(pubFile, keyFile))
         IN IF r.status # "ok"
            THEN [cipher |-> cipherFile, ret |-> Raise("encrypt", r.status)]
            ELSE IF ~i.toolOk \/ ~StartsWithAge1(r.value)
            THEN [cipher |-> cipherFile, ret |-> Raise("encrypt", "VaultCryptoError")]
            ELSE [cipher |-> [exists |-> TRUE, data |-> i.data,
                              rcpt |-> r.value, own |-> i.recipient = NoneStr],
                  ret |-> [NoRet EXCEPT !.op = "encrypt", !.data = i.data]]

encrypt ==
    \E i \in EncryptInputs :
       /\ UNCHANGED <<keyFile, pubFile, backupFile, tmpSecrets, tmpKeys, genCount,
                      firstKey, firstPub, hostVars>>
       /\ cipherFile' = DoEncrypt(i).cipher
       /\ ret' = DoEncrypt(i).ret

\* The plaintext file handed to "nakimi encrypt": absent, or holding data.
NoPlain == [exists |-> FALSE, data |-> 0]
NotPlain == <<ml, guardVars, probeVars, sessVars, mockVars, configVars, mcpVars, cliVars>>

\* the user writes the file to be encrypted
write_plaintext ==
    /\ \E d \in DataIds :
          /\ plainFile' = [exists |-> TRUE, data |-> d]
          /\ ret' = [NoRet EXCEPT !.op = "write_plaintext", !.data = d]
    /\ UNCHANGED <<keyFile, pubFile, backupFile, cipherFile, tmpSecrets, tmpKeys,
                   genCount, firstKey, firstPub, NotPlain>>

\* What cmd_encrypt does with Vault.encrypt's outcome r: shredOn says
\* whether the original is handed to secure_delete.
CmdEncryptStep(r, shredOn, e) ==
    LET calls == secure_delete(plainFile.exists, e.df, e.shred)
    IN /\ cipherFile' = r.cipher
       /\ plainFile' = IF shredOn /\ GoneAfter(plainFile.exists, calls, e.shred)
                       THEN NoPlain ELSE plainFile
       /\ ret' = [r.ret EXCEPT !.op = "cmd_encrypt",
                               !.existed = shredOn,
                               !.df = IF shredOn THEN e.df ELSE @,
                               !.shred = IF shredOn THEN e.shred ELSE @,
                               !.calls = IF shredOn THEN calls ELSE @]

\* cmd_encrypt erasing the original whether or not encrypt succeeded
cmd_encrypt_shred_always ==
    /\ \E ageOk, toolOk, shred \in BOOLEAN, e \in EraseEnvs :
          /\ ~shred => e.df = "tmpfs"
          /\ IF ~plainFile.exists
             THEN /\ ret' = [Raise("cmd_encrypt", "exit 1") EXCEPT !.noInput = TRUE]
                  /\ UNCHANGED <<cipherFile, plainFile>>
             ELSE CmdEncryptStep(DoEncrypt([ageOk |-> ageOk, inputExists |-> TRUE,
                                            data |-> plainFile.data, recipient |-> NoneStr,
                                            toolOk |-> toolOk]),
                                 shred, e)
    /\ UNCHANGED <<keyFile, pubFile, backupFile, tmpSecrets, tmpKeys, genCount,
                   firstKey, firstPub, NotPlain>>

\* cmd_encrypt: exit 1 when the file is missing; Vault.encrypt to
\* <file>.age, whose exception ends the command; then, with --shred,
\* secure_delete of the original.
cmd_encrypt ==
    /\ \E ageOk, toolOk, shred \in BOOLEAN, e \in EraseEnvs :
          /\ ~shred => e.df = "tmpfs"
          /\ IF ~plainFile.exists
             THEN /\ ret' = [Raise("cmd_encrypt", "exit 1") EXCEPT !.noInput = TRUE]
                  /\ UNCHANGED <<cipherFile, plainFile>>
             ELSE LET r == DoEncrypt([ageOk |-> ageOk, inputExists |-> TRUE,
                                      data |-> plainFile.data, recipient |-> NoneStr,
                                      toolOk |-> toolOk])
                  IN CmdEncryptStep(r, shred /\ r.ret.status = "ok", e)
    /\ UNCHANGED <<keyFile, pubFile, backupFile, tmpSecrets, tmpKeys, genCount,
                   firstKey, firstPub, NotPlain>>

\* --------------------------------------------------------- key resolution
KeyWriteOutcomes == {"ok", "write", "chmod"}

\* tempfile.mkstemp: a name not in use
MkTemp(files) == CHOOSE t \in TempIds \ files : \A u \in TempIds \ files : t <= u

\* the sniff without the search for the marker
IsPlaintextIdentityDecodeOnly(c) == c.utf8

\* The content sniff of _get_decrypted_key_path: the bytes decode as UTF-8
\* and the text contains "AGE-SECRET-KEY-".
IsPlaintextIdentity(c) == c.utf8 /\ HasMarker(c)

\* YubiKeyManager.decrypt_age_key succeeds on an age ciphertext when the
\* plugin and the token answer.
CanUnwrap(c, unwrapOk) == unwrapOk /\ c.depth >= 1

\* Whether _get_decrypted_key_path gets as far as tempfile.mkstemp.
CreatesKeyTemp(key, yk, unwrapOk) ==
    key.exists /\ yk /\ ~IsPlaintextIdentity(key) /\ CanUnwrap(key, unwrapOk)

\* Vault._get_decrypted_key_path: the path handed to age (ident: what that
\* file holds), the temp key file it created (tmpK, 0: none) and the temp
\* key files afterwards.  yk: self.yubikey_manager is set.
get_decrypted_key_path(key, tk, yk, unwrapOk, keyWrite) ==
    LET none == [status |-> "VaultCryptoError", route |-> "none", tmpK |-> 0,
                 tk |-> tk, ident |-> NoFile]
    IN IF ~key.exists THEN none
       ELSE IF ~yk THEN [none EXCEPT !.status = "ok", !.route = "direct", !.ident = key]
       ELSE IF IsPlaintextIdentity(key)
       THEN [none EXCEPT !.status = "ok", !.route = "direct", !.ident = key]
       ELSE IF ~CanUnwrap(key, unwrapOk) THEN [none EXCEPT !.route = "unwrap"]
       ELSE LET t == MkTemp(tk)
            IN IF keyWrite # "ok"
               THEN [status |-> "OSError", route |-> "unwrap", tmpK |-> t,
                     tk |-> tk \cup {t}, ident |-> NoFile]
               ELSE [status |-> "ok", route |-> "unwrap", tmpK |-> t,
                     tk |-> tk \cup {t}, ident |-> UnwrapContent(key)]

\* the finally block erasing whatever path was yielded
with_decrypted_key_exit_any_path(kr, key, df, shred) ==
    LET gone == GoneAfter(TRUE, secure_delete(TRUE, df, shred), shred)
    IN IF kr.tmpK # 0
       THEN [tk |-> IF kr.tmpK \in kr.tk /\ gone THEN kr.tk \ {kr.tmpK} ELSE kr.tk,
             key |-> key]
       ELSE [tk |-> kr.tk, key |-> IF key.exists /\ gone THEN NoFile ELSE key]

\* The finally block of Vault._with_decrypted_key: the temp key files and
\* the key file after the scope is left.  The yielded path differs from
\* the key file exactly when the call created a temp key file (tmpK # 0).
with_decrypted_key_exit(kr, key, df, shred) ==
    IF kr.tmpK # 0 /\ kr.tmpK \in kr.tk
    THEN [tk |-> IF GoneAfter(TRUE, secure_delete(TRUE, df, shred), shred)
                 THEN kr.tk \ {kr.tmpK}
                 ELSE kr.tk,
          key |-> key]
    ELSE [tk |-> kr.tk, key |-> key]

\* age -d -i <identity file>: succeeds when the tool runs and the identity
\* file holds the plaintext identity the ciphertext was encrypted to.
AgeDecrypts(cipher, ident, toolOk) ==
    toolOk /\ cipher.exists /\ HasMarker(ident) /\ PubKey(ident.kid) = cipher.rcpt

\* ---------------------------------------------------------------- decrypt
\* What the environment answers during one decrypt call.  An answer that is
\* never asked for on the path taken is fixed, so each path is drawn once.
DecryptInputs ==
    { i \in [ageOk : BOOLEAN, yk : BOOLEAN, unwrapOk : BOOLEAN,
             keyWrite : KeyWriteOutcomes, toolOk : BOOLEAN, df : DfOutcomes,
             shred : ShredOutcomes] :
        /\ [df |-> i.df, shred |-> i.shred] \in EraseEnvs
        /\ ~i.ageOk => ~i.yk /\ i.toolOk
        /\ ~i.yk => ~i.unwrapOk
        /\ ~i.unwrapOk => i.keyWrite = "ok"
        /\ i.keyWrite # "ok" => i.toolOk
        /\ ~(i.unwrapOk /\ i.keyWrite = "ok") => i.df = "tmpfs" /\ i.shred = "ok" }

\* Vault.decrypt past its two checks: the temp output file, the key
\* resolution, the tool, and the cleanup of a failed run.
DecryptBody(i, op) ==
    LET t == MkTemp(tmpSecrets)
        ts1 == tmpSecrets \cup {t}
        kr == get_decrypted_key_path(keyFile, tmpKeys, i.yk, i.unwrapOk, i.keyWrite)
        r == [NoRet EXCEPT !.op = op, !.status = kr.status, !.tmpS = t,
                           !.tmpK = kr.tmpK, !.yk = i.yk, !.route = kr.route,
                           !.noInput = ~cipherFile.exists]
        x == with_decrypted_key_exit(kr, keyFile, i.df, i.shred)
    IN IF kr.status # "ok"
       THEN [ts |-> ts1, tk |-> kr.tk, key |-> keyFile, ret |-> r]
       ELSE IF AgeDecrypts(cipherFile, kr.ident, i.toolOk)
       THEN [ts |-> ts1, tk |-> x.tk, key |-> x.key,
             ret |-> [r EXCEPT !.data = cipherFile.data]]
       ELSE [ts |-> ts1 \ {t}, tk |-> x.tk, key |-> x.key,
             ret |-> [r EXCEPT !.status = "VaultCryptoError"]]

\* decrypt without the check that the input file exists
DoDecryptNoInputCheck(i, op) ==
    IF ~i.ageOk \/ TempIds \ tmpSecrets = {} \/ TempIds \ tmpKeys = {}
    THEN [ts |-> tmpSecrets, tk |-> tmpKeys, key |-> keyFile,
          ret |-> [Raise(op, "VaultCryptoError") EXCEPT !.noInput = ~cipherFile.exists]]
    ELSE DecryptBody(i, op)

\* Vault.decrypt(ciphertext_path) on the encrypted blob, plaintext_path left
\* to default: the temp secrets files and temp key files afterwards, and the
\* outcome.
DoDecrypt(i, op) ==
    IF ~i.ageOk \/ ~cipherFile.exists
    THEN [ts |-> tmpSecrets, tk |-> tmpKeys, key |-> keyFile,
          ret |-> [Raise(op, "VaultCryptoError") EXCEPT !.noInput = ~cipherFile.exists]]
    ELSE DecryptBody(i, op)

\* mkstemp finds a free name whenever the call asks for one
HasFreeTemps(i, needSecrets) ==
    /\ (needSecrets /\ i.ageOk /\ cipherFile.exists) => TempIds \ tmpSecrets # {}
    /\ (i.ageOk /\ cipherFile.exists /\ CreatesKeyTemp(keyFile, i.yk, i.unwrapOk))
          => TempIds \ tmpKeys # {}

\* Vault.decrypt
decrypt ==
    /\ \E i \in DecryptInputs :
          LET d == DoDecrypt(i, "decrypt")
          IN /\ HasFreeTemps(i, TRUE)
             /\ tmpSecrets' = d.ts
             /\ tmpKeys' = d.tk
             /\ keyFile' = d.key
             /\ ret' = d.ret
    /\ UNCHANGED <<pubFile, backupFile, cipherFile, genCount, firstKey, firstPub, hostVars>>

\* Vault.decrypt_to_string: the key is resolved and released as in decrypt,
\* the plaintext goes to stdout and no output file is created.
DoDecryptToString(i) ==
    IF ~i.ageOk \/ ~cipherFile.exists
    THEN [tk |-> tmpKeys, key |-> keyFile,
          ret |-> [Raise("decrypt_to_string", "VaultCryptoError") EXCEPT
                      !.noInput = ~cipherFile.exists]]
    ELSE LET kr == get_decrypted_key_path(keyFile, tmpKeys, i.yk, i.unwrapOk, i.keyWrite)
             r == [NoRet EXCEPT !.op = "decrypt_to_string", !.status = kr.status,
                                !.tmpK = kr.tmpK, !.yk = i.yk, !.route = kr.route]
             x == with_decrypted_key_exit(kr, keyFile, i.df, i.shred)
         IN IF kr.status # "ok"
            THEN [tk |-> kr.tk, key |-> keyFile, ret |-> r]
            ELSE IF AgeDecrypts(cipherFile, kr.ident, i.toolOk)
            THEN [tk |-> x.tk, key |-> x.key, ret |-> [r EXCEPT !.data = cipherFile.data]]
            ELSE [tk |-> x.tk, key |-> x.key,
                  ret |-> [r EXCEPT !.status = "VaultCryptoError"]]

decrypt_to_string ==
    /\ \E i \in DecryptInputs :
          LET d == DoDecryptToString(i)
          IN /\ HasFreeTemps(i, FALSE)
             /\ tmpKeys' = d.tk
             /\ keyFile' = d.key
             /\ ret' = d.ret
    /\ UNCHANGED <<pubFile, backupFile, cipherFile, tmpSecrets, genCount,
                   firstKey, firstPub, hostVars>>

\* ----------------------------------------------------------- load_secrets
\* What the environment answers during one load_secrets call on the
\* encrypted blob; df and shred answer for both temp files of the call.
LoadInputs ==
    { i \in [ageOk : BOOLEAN, yk : BOOLEAN, unwrapOk : BOOLEAN,
             keyWrite : KeyWriteOutcomes, toolOk : BOOLEAN, df : DfOutcomes,
             shred : ShredOutcomes, parseOk : BOOLEAN] :
        /\ [df |-> i.df, shred |-> i.shred] \in EraseEnvs
        /\ ~i.ageOk => ~i.yk /\ i.toolOk
        /\ ~i.yk => ~i.unwrapOk
        /\ ~i.unwrapOk => i.keyWrite = "ok"
        /\ i.keyWrite # "ok" => i.toolOk /\ i.df = "tmpfs" /\ i.shred = "ok"
        /\ ~i.ageOk => i.df = "tmpfs" /\ i.shred = "ok"
        /\ (~i.toolOk /\ ~i.unwrapOk) => i.df = "tmpfs" /\ i.shred = "ok"
        /\ (~i.ageOk \/ ~i.toolOk \/ i.keyWrite # "ok") => i.parseOk }

\* load_secrets with the secure_delete after the parse instead of in a
\* finally block
DoLoadSecretsNoFinally(i) ==
    LET d == DoDecrypt(i, "load_secrets")
        t == d.ret.tmpS
    IN IF d.ret.status # "ok" THEN d
       ELSE IF ~i.parseOk
       THEN [d EXCEPT !.ret = [d.ret EXCEPT !.status = "JSONDecodeError", !.data = 0]]
       ELSE LET calls == secure_delete(t \in d.ts, i.df, i.shred)
            IN [d EXCEPT
                  !.ts = IF GoneAfter(t \in d.ts, calls, i.shred) THEN d.ts \ {t} ELSE d.ts]

\* load_secrets on a secrets path ending in .age: decrypt, read and parse,
\* and in the finally block secure_delete the temp file decrypt returned.
DoLoadSecrets(i) ==
    LET d == DoDecrypt(i, "load_secrets")
        t == d.ret.tmpS
    IN IF d.ret.status # "ok" THEN d
       ELSE LET calls == secure_delete(t \in d.ts, i.df, i.shred)
            IN [d EXCEPT
                  !.ts = IF GoneAfter(t \in d.ts, calls, i.shred) THEN d.ts \ {t} ELSE d.ts,
                  !.ret = [d.ret EXCEPT
                             !.status = IF i.parseOk THEN "ok" ELSE "JSONDecodeError",
                             !.data = IF i.parseOk THEN d.ret.data ELSE 0]]

load_secrets ==
    /\ \E i \in LoadInputs :
          LET d == DoLoadSecrets(i)
          IN /\ HasFreeTemps(i, TRUE)
             /\ tmpSecrets' = d.ts
             /\ tmpKeys' = d.tk
             /\ keyFile' = d.key
             /\ ret' = d.ret
    /\ UNCHANGED <<pubFile, backupFile, cipherFile, genCount, firstKey, firstPub, hostVars>>

\* A caller's secure_delete of a temp secrets path, existing or not.
secure_delete_path ==
    /\ \E t \in TempIds, df \in DfOutcomes, shred \in ShredOutcomes :
          LET existed == t \in tmpSecrets
              calls == secure_delete(existed, df, shred)
          IN /\ tmpSecrets' = IF GoneAfter(existed, calls, shred)
                              THEN tmpSecrets \ {t} ELSE tmpSecrets
             /\ ret' = [NoRet EXCEPT !.op = "secure_delete", !.tmpS = t, !.existed = existed,
                                     !.df = df, !.shred = shred, !.calls = calls]
    /\ UNCHANGED <<keyFile, pubFile, backupFile, cipherFile, tmpKeys, genCount,
                   firstKey, firstPub, hostVars>>

\* ------------------------------------------------------------------- wrap
CopyOutcomes == {"ok", "open", "partial"}

WrapInputs ==
    { i \in [wrapOk : BOOLEAN, blobUtf8 : BOOLEAN, copy : CopyOutcomes, write : CopyOutcomes] :
        /\ ~i.wrapOk => ~i.blobUtf8 /\ i.copy = "ok"
        /\ i.copy # "ok" => i.write = "ok" }

\* encrypt-key overwriting the key file without the copy to key.txt.backup
wrap_no_backup ==
    /\ keyFile.depth < MaxDepth
    /\ \E i \in WrapInputs :
          LET blob == WrapContent(keyFile, i.blobUtf8)
              st == IF ~keyFile.exists THEN "NoKey"
                    ELSE IF ~keyFile.utf8 THEN "ReadError"
                    ELSE IF ~i.wrapOk THEN "WrapFailed"
                    ELSE IF i.write # "ok" THEN "WriteFailed"
                    ELSE "ok"
          IN /\ keyFile' = IF st = "ok" THEN blob
                           ELSE IF st = "WriteFailed" /\ i.write = "partial" THEN EmptyFile
                           ELSE keyFile
             /\ ret' = Raise("wrap", st)
    /\ UNCHANGED <<backupFile, pubFile, cipherFile, tmpSecrets, tmpKeys, genCount,
                   firstKey, firstPub, hostVars>>

\* cmd_yubikey, "encrypt-key": read the key file as text, wrap it with the
\* token, copy the key file to key.txt.backup, then overwrite the key file.
wrap ==
    /\ keyFile.depth < MaxDepth
    /\ \E i \in WrapInputs :
          LET blob == WrapContent(keyFile, i.blobUtf8)
              st == IF ~keyFile.exists THEN "NoKey"
                    ELSE IF ~keyFile.utf8 THEN "ReadError"
                    ELSE IF ~i.wrapOk THEN "WrapFailed"
                    ELSE IF i.copy # "ok" THEN "CopyFailed"
                    ELSE IF i.write # "ok" THEN "WriteFailed"
                    ELSE "ok"
          IN /\ backupFile' = IF st \in {"ok", "WriteFailed"} THEN keyFile
                              ELSE IF st = "CopyFailed" /\ i.copy = "partial" THEN EmptyFile
                              ELSE backupFile
             /\ keyFile' = IF st = "ok" THEN blob
                           ELSE IF st = "WriteFailed" /\ i.write = "partial" THEN EmptyFile
                           ELSE keyFile
             /\ ret' = Raise("wrap", st)
    /\ UNCHANGED <<pubFile, cipherFile, tmpSecrets, tmpKeys, genCount, firstKey, firstPub, hostVars>>

\* ------------------------------------------------------------ memory lock
\* RLIMIT_MEMLOCK's soft limit in bytes (-1: RLIM_INFINITY) and file sizes
MaxLimit == 2
MaxSize == 3
SoftLimits == (-1)..MaxLimit
FileSizes == 0..MaxSize

\* What the system answers during one mlock_file call: whether
\* resource.getrlimit answers and with which soft limit, whether the path
\* exists, the file's size, whether open and mmap succeed, and what
\* libc.mlock returns.
MlockInputs ==
    [rlimitOk : BOOLEAN, soft : SoftLimits, exists : BOOLEAN, size : FileSizes,
     mapOk : BOOLEAN, pinRc : {0, -1}]

\* can_mlock: the soft limit is positive; ImportError and OSError give False.
can_mlock(i) == i.rlimitOk /\ i.soft > 0

\* get_mlock_limit: the soft limit; ImportError and OSError give 0.
get_mlock_limit(i) == IF i.rlimitOk THEN i.soft ELSE 0

\* The try block of mlock_file.  mmap raises on an empty file and when the
\* mapping fails.  attempt: libc.mlock was called.
MlockBody(i) ==
    IF ~i.exists THEN [raised |-> FALSE, value |-> FALSE, attempt |-> FALSE]
    ELSE IF i.size > get_mlock_limit(i)
    THEN [raised |-> FALSE, value |-> FALSE, attempt |-> FALSE]
    ELSE IF ~i.mapOk \/ i.size = 0 THEN [raised |-> TRUE, value |-> FALSE, attempt |-> FALSE]
    ELSE [raised |-> FALSE, value |-> i.pinRc = 0, attempt |-> TRUE]

\* mlock_file without the except clause
mlock_file_no_except(i) ==
    IF ~can_mlock(i) THEN [raised |-> FALSE, value |-> FALSE, attempt |-> FALSE]
    ELSE MlockBody(i)

\* mlock_file: False when can_mlock is False, and "except Exception:
\* return False" around the rest.
mlock_file(i) ==
    IF ~can_mlock(i) THEN [raised |-> FALSE, value |-> FALSE, attempt |-> FALSE]
    ELSE LET r == MlockBody(i)
         IN IF r.raised THEN [raised |-> FALSE, value |-> FALSE, attempt |-> FALSE] ELSE r

NoMlock == [op |-> "none", in |-> [rlimitOk |-> FALSE, soft |-> 0, exists |-> FALSE,
                                   size |-> 0, mapOk |-> FALSE, pinRc |-> 0],
            raised |-> FALSE, value |-> FALSE, attempt |-> FALSE]

\* One call of mlock_file, as decrypt and key resolution make it.
call_mlock_file ==
    /\ \E i \in MlockInputs :
          LET r == mlock_file(i)
          IN ml' = [op |-> "mlock_file", in |-> i, raised |-> r.raised, value |-> r.value,
                    attempt |-> r.attempt]
    /\ UNCHANGED <<vaultVars, guardVars, probeVars, sessVars, extVars>>


\* --------------------------------------------------------- hardware guard
\* The ykman tool on this host: installed, installed but exiting non-zero
\* on every command, or not on the PATH.
ToolStates == {"installed", "broken", "missing"}
Hosts == [tool : ToolStates, device : BOOLEAN]

\* subprocess.run(["ykman", ...], check=True): "ok", "nonzero"
\* (CalledProcessError) or "missing" (FileNotFoundError).
RunYkman(cmd, h, pinOk) ==
    IF h.tool = "missing" THEN "missing"
    ELSE IF h.tool = "broken" THEN "nonzero"
    ELSE IF cmd = "version" THEN "ok"
    ELSE IF cmd = "info" THEN (IF h.device THEN "ok" ELSE "nonzero")
    ELSE IF h.device /\ pinOk THEN "ok" ELSE "nonzero"

\* Optional[bool] of the two cache attributes
Cached(b) == IF b THEN "True" ELSE "False"
NewGuard(enabled) == [enabled |-> enabled, ykman |-> "None", present |-> "None"]

GuardResult(g, status, value, calls, run) ==
    [guard |-> g, status |-> status, value |-> value, calls |-> calls, run |-> run]

\* _check_ykman_installed probing on every call
check_ykman_installed_no_cache(g, h) ==
    LET out == RunYkman("version", h, FALSE)
    IN GuardResult([g EXCEPT !.ykman = Cached(out = "ok")], "ok", out = "ok",
                   <<"version">>, out)

\* YubiKeyManager._check_ykman_installed
check_ykman_installed(g, h) ==
    IF g.ykman # "None" THEN GuardResult(g, "ok", g.ykman = "True", <<>>, "none")
    ELSE LET out == RunYkman("version", h, FALSE)
         IN GuardResult([g EXCEPT !.ykman = Cached(out = "ok")], "ok", out = "ok",
                        <<"version">>, out)

\* YubiKeyManager._check_yubikey_present; only CalledProcessError is caught
\* around "ykman info".
check_yubikey_present(g, h) ==
    IF g.present # "None" THEN GuardResult(g, "ok", g.present = "True", <<>>, "none")
    ELSE LET a == check_ykman_installed(g, h)
         IN IF ~a.value
            THEN GuardResult([a.guard EXCEPT !.present = "False"], "ok", FALSE, a.calls, a.run)
            ELSE LET out == RunYkman("info", h, FALSE)
                     calls == a.calls \o <<"info">>
                 IN IF out = "missing"
                    THEN GuardResult(a.guard, "FileNotFoundError", FALSE, calls, out)
                    ELSE GuardResult([a.guard EXCEPT !.present = Cached(out = "ok")],
                                     "ok", out = "ok", calls, out)

\* YubiKeyManager.is_available
is_available(g, h) ==
    IF ~g.enabled THEN GuardResult(g, "ok", FALSE, <<>>, "none")
    ELSE LET a == check_ykman_installed(g, h)
         IN IF ~a.value THEN a
            ELSE LET b == check_yubikey_present(a.guard, h)
                 IN [b EXCEPT !.calls = a.calls \o b.calls]

\* verify_pin and change_pin: is_available, then one ykman piv command
\* with only CalledProcessError caught.
PinCommand(cmd, g, h, pinOk) ==
    LET a == is_available(g, h)
    IN IF a.status # "ok" \/ ~a.value THEN [a EXCEPT !.run = "none"]
       ELSE LET out == RunYkman(cmd, h, pinOk)
                calls == a.calls \o <<cmd>>
            IN IF out = "missing"
               THEN GuardResult(a.guard, "FileNotFoundError", FALSE, calls, out)
               ELSE GuardResult(a.guard, "ok", out = "ok", calls, out)

verify_pin(g, h, pinOk) == PinCommand("verify-pin", g, h, pinOk)
change_pin(g, h, pinOk) == PinCommand("change-pin", g, h, pinOk)

GuardOps == {"check_ykman_installed", "check_yubikey_present", "is_available",
             "verify_pin", "change_pin"}

NoGret == [op |-> "none", status |-> "ok", value |-> FALSE, calls |-> <<>>, run |-> "none"]

\* One call on the instance: the checks as cmd_yubikey's setup makes them,
\* is_available, and the two PIN commands with a right or a wrong PIN.
GuardCall(op, r) ==
    /\ guard' = r.guard
    /\ gret' = [op |-> op, status |-> r.status, value |-> r.value, calls |-> r.calls,
                run |-> r.run]
    /\ UNCHANGED <<vaultVars, ml, host, probeVars, sessVars, extVars>>

call_check_ykman_installed == GuardCall("check_ykman_installed", check_ykman_installed(guard, host))
call_check_yubikey_present == GuardCall("check_yubikey_present", check_yubikey_present(guard, host))
call_is_available == GuardCall("is_available", is_available(guard, host))
call_verify_pin == \E pinOk \in BOOLEAN : GuardCall("verify_pin", verify_pin(guard, host, pinOk))
call_change_pin == \E pinOk \in BOOLEAN : GuardCall("change_pin", change_pin(guard, host, pinOk))

\* YubiKeyManager(config): a new instance, nothing cached.
construct_guard ==
    /\ \E enabled \in BOOLEAN : guard' = NewGuard(enabled)
    /\ gret' = [NoGret EXCEPT !.op = "construct"]
    /\ UNCHANGED <<vaultVars, ml, host, probeVars, sessVars, extVars>>

\* The tool is installed, breaks or is removed; the token is plugged in or
\* pulled.
host_changes ==
    /\ \E h \in Hosts : h # host /\ host' = h
    /\ UNCHANGED <<vaultVars, ml, guard, gret, probeVars, sessVars, extVars>>

\* ------------------------------------------------------ secure temp dir
NumProbers == 3
Probers == 1..NumProbers

\* platform.system(), whether the candidate directory (/dev/shm on Linux,
\* /private/tmp on macOS) exists as a directory, and whether it is writable
TempEnvs == [platform : {"Linux", "Darwin", "Other"}, isDir : BOOLEAN, writable : BOOLEAN]
LinuxShm == [platform |-> "Linux", isDir |-> TRUE, writable |-> TRUE]

ProbeResults == {"shm", "mac", "none"}

\* get_secure_temp_dir up to test_file.touch(): the marker file afterwards
\* and where the call stands.  A PermissionError or OSError from touch
\* falls through to the macOS branch and to None.
ProbeTouch(env, marker) ==
    IF env.platform = "Linux" /\ env.isDir
    THEN IF env.writable THEN [marker |-> TRUE, pc |-> "touched"]
         ELSE [marker |-> marker, pc |-> "none"]
    ELSE IF env.platform = "Darwin" /\ env.isDir THEN [marker |-> marker, pc |-> "mac"]
    ELSE [marker |-> marker, pc |-> "none"]

\* test_file.unlink() and the return: unlink of a file that is gone raises
\* FileNotFoundError, an OSError, and the call falls through to None.
ProbeUnlink(env, marker) ==
    IF marker THEN [marker |-> FALSE, pc |-> "shm"]
    ELSE [marker |-> FALSE, pc |-> "none"]

\* A process calls get_secure_temp_dir and gets as far as the touch.
probe_touch(p) ==
    /\ probePc[p] # "touched"
    /\ LET r == ProbeTouch(tempEnv, markerFile)
       IN /\ markerFile' = r.marker
          /\ probePc' = [probePc EXCEPT ![p] = r.pc]
    /\ UNCHANGED <<vaultVars, ml, guardVars, tempEnv, sessVars, extVars>>

\* The process goes on to the unlink and returns.
probe_unlink(p) ==
    /\ probePc[p] = "touched"
    /\ LET r == ProbeUnlink(tempEnv, markerFile)
       IN /\ markerFile' = r.marker
          /\ probePc' = [probePc EXCEPT ![p] = r.pc]
    /\ UNCHANGED <<vaultVars, ml, guardVars, tempEnv, sessVars, extVars>>

\* Another host, or the directory is remounted, while no call is running.
temp_env_changes ==
    /\ \A p \in Probers : probePc[p] # "touched"
    /\ ~markerFile
    /\ \E e \in TempEnvs : e # tempEnv /\ tempEnv' = e
    /\ probePc' = [p \in Probers |-> "idle"]
    /\ UNCHANGED <<vaultVars, ml, guardVars, markerFile, sessVars, extVars>>

\* ------------------------------------------------- concurrent decrypt calls
NumSessions == 2
MaxNames == 2
Sessions == 1..NumSessions
NameIds == 1..MaxNames
TempKinds == {"secrets", "key", "identity"}

\* 0o600, and the umasks 0o022 and 0o066
OwnerRW == 384
Umasks == {18, 54}
OwnerOnly(mode) == mode % 64 = 0

\* The key file a call may find: missing, plaintext, or wrapped.
SessionKeys == {NoFile, PlainKey(1), WrapContent(PlainKey(1), TRUE),
                WrapContent(PlainKey(1), FALSE)}

Named(kind, id) == { f \in tmpFiles : f.kind = kind /\ f.id = id }
InUse(kind) == { f.id : f \in { g \in tmpFiles : g.kind = kind } }
Names(files) == { <<f.kind, f.id>> : f \in files }

\* a temp name that is always the same one
FixedName(used) == 1

\* tempfile.mkstemp and NamedTemporaryFile open with O_EXCL: the name is
\* one that no existing file has.
FreshName(used) == CHOOSE n \in NameIds \ used : \A m \in NameIds \ used : n <= m

\* a file created as open(path, "w") creates it: 0o666 masked by the umask
UmaskMode(umask) == 438 - umask

\* mkstemp creates the file with mode 0o600 whatever the umask is.
MkstempMode(umask) == OwnerRW

\* The files after session p created a temp file of the kind under the
\* name id; a name that exists is opened, not created.
CreateTemp(kind, id, p, umask) ==
    IF Named(kind, id) # {} THEN tmpFiles
    ELSE tmpFiles \cup {[kind |-> kind, id |-> id, creator |-> p, writer |-> 0,
                         mode |-> MkstempMode(umask), plain |-> FALSE]}

\* The files after session p wrote plaintext to, changed the mode of, or
\* unlinked the path it holds.
WriteTemp(kind, id, p) ==
    { IF f.kind = kind /\ f.id = id THEN [f EXCEPT !.writer = p, !.plain = TRUE] ELSE f
        : f \in tmpFiles }
ChmodTemp(kind, id, mode) ==
    { IF f.kind = kind /\ f.id = id THEN [f EXCEPT !.mode = mode] ELSE f : f \in tmpFiles }
UnlinkTemp(kind, id) == tmpFiles \ Named(kind, id)

NoLoc == [secrets |-> 0, key |-> 0, identity |-> 0]
Goto(p, to) == pc' = [pc EXCEPT ![p] = to]
Others == <<vaultVars, ml, guardVars, probeVars, extVars>>

\* decrypt, vault.py 413-436: the checks, then mkstemp of the output file.
sess_mkstemp_secrets(p) ==
    /\ pc[p] = "start"
    /\ \E checksOk \in BOOLEAN, umask \in Umasks :
          IF ~checksOk
          THEN Goto(p, "raised") /\ UNCHANGED <<tmpFiles, loc>>
          ELSE /\ NameIds \ InUse("secrets") # {}
               /\ LET n == FreshName(InUse("secrets"))
                  IN /\ tmpFiles' = CreateTemp("secrets", n, p, umask)
                     /\ loc' = [loc EXCEPT ![p].secrets = n]
               /\ Goto(p, "resolve")
    /\ UNCHANGED Others

\* _get_decrypted_key_path, vault.py 218-244, and decrypt_age_key up to
\* NamedTemporaryFile, yubikey.py 392-401.
sess_resolve(p) ==
    /\ pc[p] = "resolve"
    /\ \E key \in SessionKeys, yk \in BOOLEAN, pluginOk \in BOOLEAN, umask \in Umasks :
          IF ~key.exists
          THEN Goto(p, "raised") /\ UNCHANGED <<tmpFiles, loc>>
          ELSE IF ~yk \/ IsPlaintextIdentity(key)
          THEN Goto(p, "age") /\ UNCHANGED <<tmpFiles, loc>>
          ELSE IF ~pluginOk
          THEN Goto(p, "raised") /\ UNCHANGED <<tmpFiles, loc>>
          ELSE /\ NameIds \ InUse("identity") # {}
               /\ LET n == FreshName(InUse("identity"))
                  IN /\ tmpFiles' = CreateTemp("identity", n, p, umask)
                     /\ loc' = [loc EXCEPT ![p].identity = n]
               /\ Goto(p, "ident_write")
    /\ UNCHANGED Others

\* f.write(identity) and leaving the with block, yubikey.py 401-403; an
\* OSError here is raised before the try statement is entered.
sess_ident_write(p) ==
    /\ pc[p] = "ident_write"
    /\ \E ok \in BOOLEAN :
          IF ok
          THEN /\ tmpFiles' = WriteTemp("identity", loc[p].identity, p)
               /\ Goto(p, "unwrap")
          ELSE Goto(p, "raised") /\ UNCHANGED tmpFiles
    /\ UNCHANGED <<loc, Others>>

UnwrapOutcomes == {"ok", "nonzero", "missing", "undecodable"}

\* age -d -i identity_file and the finally block, yubikey.py 405-420.
sess_unwrap(p) ==
    /\ pc[p] = "unwrap"
    /\ \E out \in UnwrapOutcomes :
          Goto(p, IF out = "ok" THEN "key_create" ELSE "raised")
    /\ tmpFiles' = UnlinkTemp("identity", loc[p].identity)
    /\ loc' = [loc EXCEPT ![p].identity = 0]
    /\ UNCHANGED Others

\* mkstemp of the nakimi-key file, vault.py 246-253.
sess_key_create(p) ==
    /\ pc[p] = "key_create"
    /\ NameIds \ InUse("key") # {}
    /\ \E umask \in Umasks :
          LET n == FreshName(InUse("key"))
          IN /\ tmpFiles' = CreateTemp("key", n, p, umask)
             /\ loc' = [loc EXCEPT ![p].key = n]
    /\ Goto(p, "key_write")
    /\ UNCHANGED Others

\* write and chmod of the nakimi-key file, vault.py 255-268.
sess_key_write(p) ==
    /\ pc[p] = "key_write"
    /\ \E out \in KeyWriteOutcomes :
          /\ tmpFiles' = IF out = "write" THEN tmpFiles
                         ELSE IF out = "chmod" THEN WriteTemp("key", loc[p].key, p)
                         ELSE { IF f.kind = "key" /\ f.id = loc[p].key
                                THEN [f EXCEPT !.writer = p, !.plain = TRUE, !.mode = OwnerRW]
                                ELSE f : f \in tmpFiles }
          /\ Goto(p, IF out = "ok" THEN "age" ELSE "raised")
    /\ UNCHANGED <<loc, Others>>

\* age -d -i key_path -o output_path, vault.py 442-446; age opens the
\* existing output file and writes to it.
sess_age(p) ==
    /\ pc[p] = "age"
    /\ \E toolOk \in BOOLEAN :
          IF toolOk
          THEN /\ tmpFiles' = WriteTemp("secrets", loc[p].secrets, p)
               /\ Goto(p, "exit_ok")
          ELSE Goto(p, "exit_fail") /\ UNCHANGED tmpFiles
    /\ UNCHANGED <<loc, Others>>

\* The finally block of _with_decrypted_key, vault.py 283-287.
sess_key_exit(p) ==
    /\ pc[p] \in {"exit_ok", "exit_fail"}
    /\ tmpFiles' = IF loc[p].key # 0 THEN UnlinkTemp("key", loc[p].key) ELSE tmpFiles
    /\ loc' = [loc EXCEPT ![p].key = 0]
    /\ Goto(p, IF pc[p] = "exit_ok" THEN "chmod" ELSE "cleanup")
    /\ UNCHANGED Others

\* os.chmod(output_path, 0o600) and the return, vault.py 447-457.
sess_chmod(p) ==
    /\ pc[p] = "chmod"
    /\ tmpFiles' = ChmodTemp("secrets", loc[p].secrets, OwnerRW)
    /\ Goto(p, "returned")
    /\ UNCHANGED <<loc, Others>>

\* except CalledProcessError: unlink the output, vault.py 458-462.
sess_cleanup(p) ==
    /\ pc[p] = "cleanup"
    /\ tmpFiles' = UnlinkTemp("secrets", loc[p].secrets)
    /\ loc' = [loc EXCEPT ![p].secrets = 0]
    /\ Goto(p, "raised")
    /\ UNCHANGED Others

\* The caller's secure_delete of the path decrypt returned, main.py 59-64.
sess_release(p) ==
    /\ pc[p] = "returned"
    /\ tmpFiles' = UnlinkTemp("secrets", loc[p].secrets)
    /\ loc' = [loc EXCEPT ![p].secrets = 0]
    /\ Goto(p, "done")
    /\ UNCHANGED Others

\* ------------------------------------------------------ mock hardware guard
\* encrypt_age_key calls made on one MockYubiKeyManager
MaxMock == 3
MockIds == 0..MaxMock

\* The byte strings handed to decrypt_age_key: text "MOCK:" followed by
\* "mock-key-<rest>" (rest = -1: some other text), text without the "MOCK:"
\* prefix, and bytes that are not valid UTF-8.
MockPrefix == "MOCK:"
OtherPrefix == "age-encryption.org/v1"
NotUtf8Blob == [utf8 |-> FALSE, prefix |-> OtherPrefix, rest |-> -1]
MockBlob(n) == [utf8 |-> TRUE, prefix |-> MockPrefix, rest |-> n]
Blobs ==
    [utf8 : {TRUE}, prefix : {MockPrefix, OtherPrefix}, rest : MockIds \cup {-1}]
        \cup {NotUtf8Blob}

\* MockYubiKeyManager.encrypt_age_key: the key is stored under
\* "mock-key-<len(dict)>" and the blob is "MOCK:" + that id.
mock_encrypt_age_key(keys, k) ==
    LET n == Len(keys)
    IN [keys |-> Append(keys, k), blob |-> MockBlob(n)]

\* MockYubiKeyManager.decrypt_age_key: decode as UTF-8, strip "MOCK:", look
\* the id up; YubiKeyError when the prefix or the id is unknown.  The decode
\* is outside any try block.
mock_decrypt_age_key(keys, b) ==
    IF ~b.utf8 THEN [status |-> "UnicodeDecodeError", value |-> 0]
    ELSE IF b.prefix = MockPrefix /\ b.rest >= 0 /\ b.rest < Len(keys)
         THEN [status |-> "ok", value |-> keys[b.rest + 1]]
    ELSE [status |-> "YubiKeyError", value |-> 0]

NoMret == [op |-> "none", blob |-> NotUtf8Blob, produced |-> FALSE,
           status |-> "ok", value |-> 0]

IssuedBlobs == {mockIssued[j].blob : j \in 1..Len(mockIssued)}

call_mock_encrypt_age_key ==
    /\ Len(mockKeys) < MaxMock
    /\ \E k \in KeyIds :
          LET r == mock_encrypt_age_key(mockKeys, k)
          IN /\ mockKeys' = r.keys
             /\ mockIssued' = Append(mockIssued, [blob |-> r.blob, key |-> k])
             /\ mret' = [op |-> "encrypt_age_key", blob |-> r.blob, produced |-> TRUE,
                         status |-> "ok", value |-> k]
    /\ UNCHANGED <<vaultVars, ml, guardVars, probeVars, sessVars, configVars, mcpVars,
                   cliVars, plainFile>>

call_mock_decrypt_age_key ==
    /\ \E b \in Blobs :
          LET r == mock_decrypt_age_key(mockKeys, b)
          IN mret' = [op |-> "decrypt_age_key", blob |-> b,
                      produced |-> b \in IssuedBlobs,
                      status |-> r.status, value |-> r.value]
    /\ UNCHANGED <<vaultVars, ml, guardVars, probeVars, sessVars, mockKeys, mockIssued,
                   configVars, mcpVars, cliVars, plainFile>>

\* ---------------------------------------------------------- configuration
\* changes made to the environment and the config file
MaxChanges == 2

Settings == {"vault_dir", "key_file", "secrets_file", "yubikey_enabled",
             "yubikey_slot", "yubikey_require_touch", "yubikey_pin_prompt"}
PathSettings == {"vault_dir", "key_file", "secrets_file"}
BoolSettings == {"yubikey_enabled", "yubikey_require_touch", "yubikey_pin_prompt"}

\* Paths are sequences of components; "~" is the home directory.
HomeDir == <<"/home/user">>
ExpandUser(p) == IF Len(p) > 0 /\ p[1] = "~" THEN HomeDir \o Tail(p) ELSE p
Join(dir, name) == Append(dir, name)
Parent(p) == SubSeq(p, 1, Len(p) - 1)
DEFAULT_VAULT_DIR == <<"~", ".nakimi">>

\* What NAKIMI_DIR, NAKIMI_KEY, NAKIMI_SECRETS, NAKIMI_YUBIKEY_ENABLED,
\* NAKIMI_YUBIKEY_SLOT, NAKIMI_YUBIKEY_REQUIRE_TOUCH and
\* NAKIMI_YUBIKEY_PIN_PROMPT can hold when set, the empty string included.
EnvValues(s) ==
    {EmptyStr} \cup
    (CASE s = "vault_dir" -> {<<"~", "env-vault">>}
       [] s = "key_file" -> {<<"/env", "keys", "key.txt">>}
       [] s = "secrets_file" -> {<<"/env", "secrets.age">>}
       [] s = "yubikey_slot" -> {<<"9c">>}
       [] OTHER -> {<<"TRUE">>, <<"off">>})

\* What the line "<s>=..." of the config file can hold.
FileValues(s) ==
    CASE s = "vault_dir" -> {<<"/file", "vault">>}
      [] s = "key_file" -> {<<"~", "file-keys", "key.txt">>}
      [] s = "secrets_file" -> {<<"/file", "secrets.age">>}
      [] s = "yubikey_slot" -> {<<"9d">>}
      [] OTHER -> {<<"yes">>, <<"no">>}

\* "if value:" on an Optional[str]
Truthy(v) == v # NoneStr /\ v # EmptyStr

\* str.lower on the words above
Lower(v) == IF v = <<"TRUE">> THEN <<"true">> ELSE v
TrueWords == {<<"true">>, <<"yes">>, <<"1">>, <<"on">>}

\* VaultConfig._get_path
get_path(env_val, config_value, default) ==
    IF Truthy(env_val) THEN ExpandUser(env_val)
    ELSE IF Truthy(config_value) THEN ExpandUser(config_value)
    ELSE default

\* VaultConfig._get_bool
get_bool(env_val, config_value, default) ==
    IF Truthy(env_val) THEN Lower(env_val) \in TrueWords
    ELSE IF Truthy(config_value) THEN Lower(config_value) \in TrueWords
    ELSE default

\* VaultConfig._get_str
get_str(env_val, config_value, default) ==
    IF Truthy(env_val) THEN env_val
    ELSE IF Truthy(config_value) THEN config_value
    ELSE default

\* VaultConfig._load_config: the resolved settings for environment e and
\* config-file values f.
load_config(e, f) ==
    LET vault_dir == get_path(e["vault_dir"], f["vault_dir"], ExpandUser(DEFAULT_VAULT_DIR))
    IN [vault_dir |-> vault_dir,
        key_file |-> get_path(e["key_file"], f["key_file"], Join(vault_dir, "key.txt")),
        secrets_file |-> get_path(e["secrets_file"], f["secrets_file"],
                                  Join(vault_dir, "secrets.json.age")),
        yubikey_enabled |-> get_bool(e["yubikey_enabled"], f["yubikey_enabled"], FALSE),
        yubikey_slot |-> get_str(e["yubikey_slot"], f["yubikey_slot"], <<"9a">>),
        yubikey_require_touch |-> get_bool(e["yubikey_require_touch"],
                                           f["yubikey_require_touch"], TRUE),
        yubikey_pin_prompt |-> get_bool(e["yubikey_pin_prompt"],
                                        f["yubikey_pin_prompt"], TRUE)]

NothingSet == [s \in Settings |-> NoneStr]
\* _config = None
NoConfig == [set |-> FALSE, values |-> load_config(NothingSet, NothingSet),
             env |-> NothingSet, file |-> NothingSet]

\* get_config that resolves on every call
get_config_no_cache(cfg, e, f) ==
    [set |-> TRUE, values |-> load_config(e, f), env |-> e, file |-> f]

\* get_config: the module-level instance, created on first use.
get_config(cfg, e, f) ==
    IF cfg.set THEN cfg
    ELSE [set |-> TRUE, values |-> load_config(e, f), env |-> e, file |-> f]

\* Vault.__init__ path resolution: the explicit arguments (None: not given)
\* and the configuration.
vault_paths(key_arg, dir_arg, cfg) ==
    LET vault_dir == IF dir_arg # NoneStr THEN ExpandUser(dir_arg)
                     ELSE IF key_arg # NoneStr THEN Parent(ExpandUser(key_arg))
                     ELSE cfg.vault_dir
        key_file == IF key_arg # NoneStr THEN ExpandUser(key_arg)
                    ELSE IF vault_dir # NoneStr THEN Join(vault_dir, "key.txt")
                    ELSE cfg.key_file
    IN [vault_dir |-> vault_dir, key_file |-> key_file]

KeyArgs == {NoneStr, <<"/arg", "keys", "key.txt">>}
DirArgs == {NoneStr, <<"/arg", "vault">>}

NoCret == [tick |-> 0, cached |-> FALSE, stale |-> FALSE,
           values |-> load_config(NothingSet, NothingSet)]
NoVret == [op |-> "none", key_arg |-> NoneStr, dir_arg |-> NoneStr,
           vault_dir |-> EmptyStr, key_file |-> EmptyStr, cfg |-> NoConfig]

NotConfig == <<vaultVars, ml, guardVars, probeVars, sessVars, mockVars, mcpVars, cliVars,
              plainFile>>

\* os.environ[...] = v, or del os.environ[...]
setenv ==
    /\ envChanges < MaxChanges
    /\ \E s \in Settings : \E v \in EnvValues(s) \cup {NoneStr} :
          /\ v # environ[s]
          /\ environ' = [environ EXCEPT ![s] = v]
    /\ envChanges' = envChanges + 1
    /\ UNCHANGED <<configFile, config, cret, vret, NotConfig>>

\* the user edits the config file
write_config_file ==
    /\ envChanges < MaxChanges
    /\ \E s \in Settings : \E v \in FileValues(s) \cup {NoneStr} :
          /\ v # configFile[s]
          /\ configFile' = [configFile EXCEPT ![s] = v]
    /\ envChanges' = envChanges + 1
    /\ UNCHANGED <<environ, config, cret, vret, NotConfig>>

call_get_config ==
    /\ config' = get_config(config, environ, configFile)
    /\ cret' = [tick |-> 1 - cret.tick, cached |-> config.set,
                stale |-> config.set /\ config.values # load_config(environ, configFile),
                values |-> config'.values]
    /\ UNCHANGED <<environ, configFile, envChanges, vret, NotConfig>>

call_reset_config ==
    /\ config.set
    /\ config' = NoConfig
    /\ UNCHANGED <<environ, configFile, envChanges, cret, vret, NotConfig>>

\* Vault(key_file=..., vault_dir=...)
new_vault ==
    /\ \E key_arg \in KeyArgs, dir_arg \in DirArgs :
          LET cfg == get_config(config, environ, configFile)
              r == vault_paths(key_arg, dir_arg, cfg.values)
          IN /\ config' = cfg
             /\ vret' = [op |-> "Vault", key_arg |-> key_arg, dir_arg |-> dir_arg,
                         vault_dir |-> r.vault_dir, key_file |-> r.key_file, cfg |-> cfg]
    /\ UNCHANGED <<environ, configFile, envChanges, cret, NotConfig>>

\* nakimi yubikey setup with a token present: get_config, then the four
\* NAKIMI_YUBIKEY_* variables are set in os.environ.
cmd_yubikey_setup ==
    /\ envChanges < MaxChanges
    /\ config' = get_config(config, environ, configFile)
    /\ \E no_touch, no_pin_prompt \in BOOLEAN :
          environ' = [environ EXCEPT
                         !["yubikey_enabled"] = <<"true">>,
                         !["yubikey_slot"] = <<"9a">>,
                         !["yubikey_require_touch"] = IF no_touch THEN <<"false">> ELSE <<"true">>,
                         !["yubikey_pin_prompt"] = IF no_pin_prompt THEN <<"false">> ELSE <<"true">>]
    /\ envChanges' = envChanges + 1
    /\ UNCHANGED <<configFile, cret, vret, NotConfig>>

\* ------------------------------------------------------------- MCP server
\* length of plugin and command names, plugins registered
MaxNameLen == 2
MaxPlugins == 2

\* Names are sequences of characters: a letter or an underscore.
Letter == "g"
Underscore == "_"
Dot == "."
NameChars == {Letter, Underscore}
Identifiers == UNION { [1..n -> NameChars] : n \in 1..MaxNameLen }
\* A plugin is a Python package: its name starts with a letter.
PluginNames == { n \in Identifiers : n[1] = Letter }
CommandNames == Identifiers

\* PluginManager.register_plugin: f"{plugin_name}.{cmd.name}"
FullName(plugin, cmd) == plugin \o <<Dot>> \o cmd

\* str.replace(".", "_")
tool_name_from_command(full_command) ==
    [j \in 1..Len(full_command) |->
        IF full_command[j] = Dot THEN Underscore ELSE full_command[j]]

\* str.replace("_", ".", 1): the first underscore becomes a dot
command_from_tool_name(tool_name) ==
    LET us == { j \in 1..Len(tool_name) : tool_name[j] = Underscore }
    IN IF us = {} THEN tool_name
       ELSE LET first == CHOOSE j \in us : \A l \in us : j <= l
            IN [j \in 1..Len(tool_name) |-> IF j = first THEN Dot ELSE tool_name[j]]

NoMcpRet == [op |-> "none", from |-> EmptyStr, tool |-> EmptyStr, to |-> EmptyStr,
             status |-> "ok"]

NotMcp == <<vaultVars, ml, guardVars, probeVars, sessVars, mockVars, configVars,
           cliVars, plainFile>>

\* create_server after plugin discovery: the registered plugins each bring
\* their commands.
create_server ==
    /\ \E ps \in SUBSET PluginNames :
          /\ Cardinality(ps) <= MaxPlugins
          /\ mcpCommands' = { FullName(p, c) : p \in ps, c \in CommandNames }
    /\ UNCHANGED <<mcpRet, NotMcp>>

\* A client calls one of the tools build_tools listed: call_tool turns the
\* name back into a command and looks it up.
call_tool ==
    /\ \E c \in mcpCommands :
          LET name == tool_name_from_command(c)
              full_command == command_from_tool_name(name)
          IN mcpRet' = [op |-> "call_tool", from |-> c, tool |-> name,
                        to |-> full_command,
                        status |-> IF full_command \in mcpCommands THEN "ok"
                                   ELSE "Unknown command"]
    /\ UNCHANGED <<mcpCommands, NotMcp>>

\* ------------------------------------------------------------ cmd_session
\* exit codes of the child process
MaxExit == 2
ExitCodes == 0..MaxExit

SessionModes == {"shell", "exec", "kimi"}
\* subprocess.run of the shell, the --exec command or kimi: it returns the
\* child's exit code, the binary is missing, or the user interrupts.
ChildOutcomes == {"returned", "FileNotFoundError", "KeyboardInterrupt"}
\* json.load and plugin discovery: done, an Exception, or an interrupt.
ListingOutcomes == {"ok", "Exception", "KeyboardInterrupt"}

\* produced: vault.decrypt returned the temp secrets file.  cleanups: calls
\* of cleanup() that found the file.  calls: what secure_delete ran.
\* df, shred: what the two tools answered to it.  pending: the exception
\* the try block was left with.  code: the exit code of the last child.
\* exit: the exit code of the process (-1: none yet, or ended by the
\* exception named in raised).
NoCsOut == [produced |-> FALSE, cleanups |-> 0, calls |-> <<>>, df |-> "none",
            shred |-> "none", pending |-> "none", code |-> 0, exit |-> -1,
            raised |-> "none"]

\* the path of the temp secrets file, as NAKIMI_SECRETS holds it
TempSecretsPath == <<"/dev/shm", "nakimi-secrets-">>

NotCli == <<vaultVars, ml, guardVars, probeVars, sessVars, mockVars, mcpVars, plainFile>>

\* the process ends with an uncaught exception
Dies(exc) == /\ csPc' = "exited"
             /\ csOut' = [csOut EXCEPT !.raised = exc]

\* cleanup(): secure_delete of the temp secrets file when it exists
Cleanup(e, pcTo, out) ==
    LET calls == secure_delete(csTemp, e.df, e.shred)
    IN /\ csTemp' = (csTemp /\ ~GoneAfter(csTemp, calls, e.shred))
       /\ csPc' = pcTo
       /\ csOut' = [out EXCEPT !.cleanups = IF csTemp THEN @ + 1 ELSE @,
                               !.calls = IF csTemp THEN calls ELSE @,
                               !.df = IF csTemp THEN e.df ELSE @,
                               !.shred = IF csTemp THEN e.shred ELSE @]

\* get_config, Vault(), and the check that the encrypted secrets exist
cs_start ==
    /\ csPc = "start"
    /\ config' = get_config(config, environ, configFile)
    /\ \E mode \in SessionModes, secretsExist \in BOOLEAN :
          /\ csMode' = mode
          /\ IF secretsExist
             THEN csPc' = "decrypt" /\ UNCHANGED csOut
             ELSE csPc' = "exited" /\ csOut' = [csOut EXCEPT !.exit = 1]
    /\ UNCHANGED <<csTemp, environ, configFile, envChanges, cret, vret, NotCli>>

\* vault.decrypt(config.secrets_file); a failing decrypt may leave its temp
\* file behind, and the session exits with 1.
cs_decrypt ==
    /\ csPc = "decrypt"
    /\ \E ok \in BOOLEAN, left \in BOOLEAN :
          IF ok
          THEN /\ left
               /\ csTemp' = TRUE
               /\ csPc' = "announce"
               /\ csOut' = [csOut EXCEPT !.produced = TRUE]
          ELSE /\ csTemp' = left
               /\ csPc' = "exited"
               /\ csOut' = [csOut EXCEPT !.exit = 1]
    /\ UNCHANGED <<csMode, configVars, NotCli>>

\* print("Vault decrypted"): stdout may be a closed pipe
cs_announce ==
    /\ csPc = "announce"
    /\ \E printOk \in BOOLEAN :
          IF printOk THEN csPc' = "plugins" /\ UNCHANGED csOut
          ELSE Dies("BrokenPipeError")
    /\ UNCHANGED <<csMode, csTemp, configVars, NotCli>>

\* the plugin listing inside "try: ... except Exception: pass"
cs_list_plugins ==
    /\ csPc = "plugins"
    /\ \E o \in ListingOutcomes :
          IF o = "KeyboardInterrupt" THEN Dies(o)
          ELSE csPc' = "usage" /\ UNCHANGED csOut
    /\ UNCHANGED <<csMode, csTemp, configVars, NotCli>>

\* the usage lines, the definition of cleanup, and NAKIMI_SECRETS exported
cs_usage ==
    /\ csPc = "usage"
    /\ \E printOk \in BOOLEAN :
          IF printOk
          THEN /\ csPc' = "launch"
               /\ environ' = [environ EXCEPT !["secrets_file"] = TempSecretsPath]
               /\ UNCHANGED csOut
          ELSE Dies("BrokenPipeError") /\ UNCHANGED environ
    /\ UNCHANGED <<csMode, csTemp, configFile, envChanges, config, cret, vret, NotCli>>

\* the first subprocess.run inside the try block
cs_launch ==
    /\ csPc = "launch"
    /\ \E o \in ChildOutcomes, code \in ExitCodes :
          /\ o # "returned" => code = 0
          /\ IF o = "returned" /\ csMode = "exec"
             THEN csPc' = "exec_cleanup" /\ csOut' = [csOut EXCEPT !.code = code]
             ELSE IF o = "FileNotFoundError" /\ csMode = "kimi"
             THEN csPc' = "fallback" /\ UNCHANGED csOut
             ELSE /\ csPc' = "finally"
                  /\ csOut' = [csOut EXCEPT !.code = code,
                                  !.pending = IF o = "returned" THEN "none" ELSE o]
    /\ UNCHANGED <<csMode, csTemp, configVars, NotCli>>

\* kimi not found: the shell is started instead
cs_fallback ==
    /\ csPc = "fallback"
    /\ \E o \in ChildOutcomes, code \in ExitCodes :
          /\ o # "returned" => code = 0
          /\ csPc' = "finally"
          /\ csOut' = [csOut EXCEPT !.code = code,
                          !.pending = IF o = "returned" THEN "none" ELSE o]
    /\ UNCHANGED <<csMode, csTemp, configVars, NotCli>>

\* --exec: cleanup() and sys.exit(result.returncode)
cs_exec_cleanup ==
    /\ csPc = "exec_cleanup"
    /\ \E e \in EraseEnvs :
          /\ ~csTemp => e.df = "tmpfs"
          /\ Cleanup(e, "finally", [csOut EXCEPT !.pending = "SystemExit"])
    /\ UNCHANGED <<csMode, configVars, NotCli>>

\* the finally block: cleanup(), then the process ends
cs_finally ==
    /\ csPc = "finally"
    /\ \E e \in EraseEnvs :
          /\ ~csTemp => e.df = "tmpfs"
          /\ Cleanup(e, "exited",
                  [csOut EXCEPT !.exit = IF csOut.pending = "none" THEN 0
                                         ELSE IF csOut.pending = "SystemExit" THEN csOut.code
                                         ELSE -1,
                                !.raised = IF csOut.pending \in {"none", "SystemExit"}
                                           THEN "none" ELSE csOut.pending])
    /\ UNCHANGED <<csMode, configVars, NotCli>>

HostInit ==
    /\ ml = NoMlock
    /\ host = [tool |-> "installed", device |-> TRUE]
    /\ guard = NewGuard(TRUE)
    /\ gret = NoGret
    /\ tempEnv = LinuxShm
    /\ markerFile = FALSE
    /\ probePc = [p \in Probers |-> "idle"]
    /\ tmpFiles = {}
    /\ pc = [p \in Sessions |-> "start"]
    /\ loc = [p \in Sessions |-> NoLoc]
    /\ mockKeys = <<>>
    /\ mockIssued = <<>>
    /\ mret = NoMret
    /\ environ = NothingSet
    /\ configFile = NothingSet
    /\ envChanges = 0
    /\ config = NoConfig
    /\ cret = NoCret
    /\ vret = NoVret
    /\ mcpCommands = {}
    /\ mcpRet = NoMcpRet
    /\ csPc = "start"
    /\ csMode = "shell"
    /\ csTemp = FALSE
    /\ csOut = NoCsOut
    /\ plainFile = [exists |-> FALSE, data |-> 0]

\* ---------------------------------------------------------- specifications
Next ==
    \/ generate_key
    \/ show_public_key
    \/ encrypt
    \/ decrypt
    \/ decrypt_to_string
    \/ load_secrets
    \/ secure_delete_path
    \/ wrap

Init == VaultInit /\ HostInit

\* Every operation of the model.
Spec == Init /\ [][Next]_vars

\* The key lifecycle: generation, the public key, encryption, wrapping.
NextKeys ==
    \/ generate_key
    \/ show_public_key
    \/ encrypt
    \/ wrap

SpecKeys == Init /\ [][NextKeys]_vars

\* The decrypt operations on every vault the key lifecycle produces.
NextVault ==
    \/ generate_key
    \/ encrypt
    \/ wrap
    \/ decrypt
    \/ decrypt_to_string
    \/ load_secrets

SpecVault == Init /\ [][NextVault]_vars

\* One hardware guard instance on a host that changes under it.
NextGuard ==
    \/ construct_guard
    \/ host_changes
    \/ call_check_ykman_installed
    \/ call_check_yubikey_present
    \/ call_is_available
    \/ call_verify_pin
    \/ call_change_pin

SpecGuard == Init /\ [][NextGuard]_vars

\* Decrypt calls of several processes on one vault, step by step.
NextSessions ==
    \/ \E p \in Sessions : sess_mkstemp_secrets(p)
    \/ \E p \in Sessions : sess_resolve(p)
    \/ \E p \in Sessions : sess_ident_write(p)
    \/ \E p \in Sessions : sess_unwrap(p)
    \/ \E p \in Sessions : sess_key_create(p)
    \/ \E p \in Sessions : sess_key_write(p)
    \/ \E p \in Sessions : sess_age(p)
    \/ \E p \in Sessions : sess_key_exit(p)
    \/ \E p \in Sessions : sess_chmod(p)
    \/ \E p \in Sessions : sess_cleanup(p)
    \/ \E p \in Sessions : sess_release(p)

SpecSessions == Init /\ [][NextSessions]_vars

\* Processes calling get_secure_temp_dir at the same time.
NextProbe ==
    \/ \E p \in Probers : probe_touch(p)
    \/ \E p \in Probers : probe_unlink(p)
    \/ temp_env_changes

SpecProbe == Init /\ [][NextProbe]_vars

\* The memory lock on every answer of the system.
NextMlock ==
    \/ call_mlock_file

SpecMlock == Init /\ [][NextMlock]_vars

\* Temp files made by decrypt and erased by the caller.
NextErase ==
    \/ generate_key
    \/ encrypt
    \/ decrypt
    \/ secure_delete_path

SpecErase == Init /\ [][NextErase]_vars

\* One MockYubiKeyManager
NextMock ==
    \/ call_mock_encrypt_age_key
    \/ call_mock_decrypt_age_key

SpecMock == Init /\ [][NextMock]_vars

\* Vaults constructed under a changing environment and config file
NextConfig ==
    \/ setenv
    \/ write_config_file
    \/ call_reset_config
    \/ new_vault

SpecConfig == Init /\ [][NextConfig]_vars

\* The process-wide configuration instance
NextConfigCache ==
    \/ setenv
    \/ write_config_file
    \/ cmd_yubikey_setup
    \/ call_get_config
    \/ call_reset_config

SpecConfigCache == Init /\ [][NextConfigCache]_vars

\* The MCP server and its clients
NextMcp ==
    \/ create_server
    \/ call_tool

SpecMcp == Init /\ [][NextMcp]_vars

\* One nakimi session from start to exit
NextShell ==
    \/ cs_start
    \/ cs_decrypt
    \/ cs_announce
    \/ cs_list_plugins
    \/ cs_usage
    \/ cs_launch
    \/ cs_fallback
    \/ cs_exec_cleanup
    \/ cs_finally

SpecShell == Init /\ [][NextShell]_vars

\* Files encrypted from the command line
NextCli ==
    \/ generate_key
    \/ show_public_key
    \/ wrap
    \/ write_plaintext
    \/ cmd_encrypt

SpecCli == Init /\ [][NextCli]_vars

\* -------------------------------------------------------------- properties
DecryptOps == {"decrypt", "decrypt_to_string", "load_secrets"}

\* The file holds the private key, in the clear or wrapped.
HoldsKey(c) == c.exists /\ c.kid # 0

\* The file is a usable copy of the private key: the identity itself or the
\* identity wrapped once, which one unwrap by the token recovers.
Usable(c) == HoldsKey(c) /\ c.depth <= 1

\* C1: when decrypt, called without an output path, exits with a failure
\* after creating its nakimi-secrets temp file, that file no longer exists.
C1_FailedDecryptRemovesTempSecrets ==
    (ret.op = "decrypt" /\ ret.status # "ok" /\ ret.tmpS # 0)
        => ret.tmpS \notin tmpSecrets

\* C2: after decrypt or decrypt_to_string returns or raises, a nakimi-key
\* temp file the call created no longer exists, also when the write or the
\* chmod of that file failed.
C2_TempKeyNeverOutlivesCall ==
    (ret.op \in {"decrypt", "decrypt_to_string"} /\ ret.tmpK # 0)
        => ret.tmpK \notin tmpKeys

\* C3: once decrypt has returned its temp file to load_secrets, that file
\* has been secure_deleted when load_secrets returns the parsed secrets or
\* raises from reading or parsing.
C3_LoadSecretsRemovesTempSecrets ==
    (ret.op = "load_secrets" /\ ret.status \in {"ok", "JSONDecodeError"})
        => ret.tmpS # 0 /\ ret.tmpS \notin tmpSecrets

C3_Witness ==
    /\ ret.op = "load_secrets"
    /\ ret.status = "JSONDecodeError"
    /\ ret.tmpS # 0
    /\ ret.tmpS \notin tmpSecrets

\* C4: a generate_key call on a vault whose key file exists raises
\* VaultCryptoError and leaves the key file as it was, so the key file keeps
\* what the first successful call wrote.
C4_GenerateKeyRefusesExistingKey ==
    [][ (ret'.op = "generate_key" /\ keyFile.exists)
          => /\ ret'.status = "VaultCryptoError"
             /\ keyFile' = keyFile
             /\ firstKey' = firstKey ]_vars

C4_Witness ==
    /\ ret.op = "generate_key"
    /\ ret.status = "VaultCryptoError"
    /\ firstKey.exists
    /\ keyFile = firstKey

\* C5, as stated: in every configuration the key file is handed to age
\* directly exactly when its content holds the AGE-SECRET-KEY- marker, and
\* is unwrapped otherwise.
C5_RouteBySniffAlone ==
    (ret.op \in DecryptOps /\ ret.route # "none")
        => (ret.route = "direct" <=> HasMarker(keyFile))

\* C5, amended: with a hardware guard the key file is handed to age
\* directly exactly when its content decodes as UTF-8 and holds the marker,
\* and is unwrapped otherwise; without a hardware guard it is always handed
\* to age directly.
C5_RouteBySniffWhenGuarded ==
    (ret.op \in DecryptOps /\ ret.route # "none")
        => IF ret.yk
           THEN /\ ret.route = "direct" <=> (keyFile.utf8 /\ HasMarker(keyFile))
                /\ ret.route = "direct" => ret.tmpK = 0
           ELSE ret.route = "direct" /\ ret.tmpK = 0

C5_Witness ==
    /\ ret.op = "decrypt"
    /\ ret.yk
    /\ ret.route = "unwrap"
    /\ ret.tmpK # 0
    /\ keyFile.utf8
    /\ keyFile.depth = 1

\* C6: wrap overwrites the key file only once key.txt.backup holds a
\* complete copy of it, a failing wrapping step leaves the key file and the
\* backup as they were, and a usable key stays usable in the key file or in
\* the backup.
C6_WrapKeepsUsableCopy ==
    [][ ret'.op = "wrap"
          => /\ keyFile' # keyFile => backupFile' = keyFile
             /\ ret'.status = "WrapFailed"
                   => keyFile' = keyFile /\ backupFile' = backupFile
             /\ Usable(keyFile) => Usable(keyFile') \/ Usable(backupFile') ]_vars

C6_Witness ==
    /\ ret.op = "wrap"
    /\ ret.status = "WriteFailed"
    /\ ~Usable(keyFile)
    /\ Usable(backupFile)

\* C7: across generate_key, wrap, decrypt and decrypt_to_string the private
\* key has at most one durable copy on disk, and every unwrapped temp copy
\* is gone when the operation that created it has returned.
C7_OneDurableCopy ==
    /\ ~(HoldsKey(keyFile) /\ HoldsKey(backupFile))
    /\ tmpKeys = {}

\* C8: decrypting what encrypt wrote for the vault's own public key gives
\* back the encrypted data, and the recipient encrypt resolved is the
\* public key of the identity in the key file.
C8_RoundTrip ==
    /\ (ret.op = "decrypt" /\ ret.status = "ok")
          => /\ ret.data = cipherFile.data
             /\ ret.tmpS \in tmpSecrets
    /\ (cipherFile.exists /\ cipherFile.own /\ HoldsKey(keyFile))
          => cipherFile.rcpt = PubKey(keyFile.kid)

C8_Witness ==
    /\ ret.op = "decrypt"
    /\ ret.status = "ok"
    /\ cipherFile.own
    /\ ret.data = cipherFile.data
    /\ keyFile.depth = 1

\* C9: generate_key on an empty vault returns a string starting with age1,
\* and every later get_public_key returns that same string.
C9_PublicKeyStable ==
    /\ (ret.op = "generate_key" /\ ret.status = "ok") => StartsWithAge1(ret.pub)
    /\ firstPub # NoneStr
          => /\ get_public_key(pubFile, keyFile) = [status |-> "ok", value |-> firstPub]
             /\ ret.op = "get_public_key" => ret.status = "ok" /\ ret.pub = firstPub

C9_Witness ==
    /\ ret.op = "get_public_key"
    /\ StartsWithAge1(firstPub)
    /\ ret.pub = firstPub
    /\ keyFile.depth = 1

\* C10: after secure_delete the path does not exist, whatever df and shred
\* answer; a path that did not exist starts no external step; and when df
\* fails, shred is tried and unlink follows a shred that is missing or
\* exits non-zero.
C10_SecureDeleteRemovesPath ==
    ret.op = "secure_delete"
        => /\ ret.status = "ok"
           /\ ret.tmpS \notin tmpSecrets
           /\ ~ret.existed => ret.calls = <<>>
           /\ (ret.existed /\ ret.df = "fail")
                 => /\ Len(ret.calls) >= 2
                    /\ ret.calls[2] = "shred"
                    /\ ret.shred # "ok" => ret.calls = <<"df", "shred", "unlink">>

C10_Witness ==
    /\ ret.op = "secure_delete"
    /\ ret.existed
    /\ ret.df = "fail"
    /\ ret.shred = "nonzero"
    /\ ret.tmpS \notin tmpSecrets

\* C11: on persistent storage secure_delete starts shred first, and a
\* plain unlink happens only after that shred was reported missing or
\* failed.
C11_ShredBeforeUnlink ==
    (ret.op = "secure_delete" /\ ret.existed /\ ~is_ram_disk(ret.df))
        => /\ \E j \in 1..Len(ret.calls) : ret.calls[j] = "shred"
           /\ \A i \in 1..Len(ret.calls) :
                 ret.calls[i] = "unlink"
                    => /\ ret.shred \in {"missing", "nonzero"}
                       /\ \E j \in 1..(i - 1) : ret.calls[j] = "shred"

C11_Witness ==
    /\ ret.op = "secure_delete"
    /\ ret.existed
    /\ ret.df = "other"
    /\ ret.shred = "missing"
    /\ ret.calls = <<"df", "shred", "unlink">>

\* C12: on a path reported as RAM-backed secure_delete unlinks the file
\* and never starts shred.
C12_RamDiskNeverShreds ==
    (ret.op = "secure_delete" /\ ret.existed /\ ret.df = "tmpfs")
        => /\ \A i \in 1..Len(ret.calls) : ret.calls[i] # "shred"
           /\ \E i \in 1..Len(ret.calls) : ret.calls[i] = "unlink"
           /\ ret.tmpS \notin tmpSecrets

C12_Witness ==
    /\ ret.op = "secure_delete"
    /\ ret.existed
    /\ ret.df = "tmpfs"
    /\ ret.shred = "missing"
    /\ ret.calls = <<"df", "unlink">>

\* C16: mlock_file never raises; it returns False when locking is
\* unavailable, when the path does not exist, when the file is larger than
\* the lock budget and when mapping or the pin call fails, and True only
\* when the pin call succeeded.
C16_MlockNeverRaises ==
    ml.op = "mlock_file"
        => /\ ~ml.raised
           /\ (~ml.in.rlimitOk \/ ml.in.soft <= 0) => ~ml.value
           /\ ~ml.in.exists => ~ml.value
           /\ (ml.in.rlimitOk /\ ml.in.size > ml.in.soft) => ~ml.value
           /\ (~ml.in.mapOk \/ ml.in.pinRc # 0) => ~ml.value
           /\ ml.value => ml.in.pinRc = 0

C16_Witness ==
    /\ ml.op = "mlock_file"
    /\ ml.in.rlimitOk /\ ml.in.soft > 0
    /\ ml.in.exists
    /\ ml.in.size <= ml.in.soft
    /\ ~ml.in.mapOk
    /\ ~ml.raised /\ ~ml.value

\* C18: once _check_ykman_installed or _check_yubikey_present has
\* returned a result on an instance, every later call on that instance
\* returns the same result and starts no external probe for it, whatever
\* happens to the tool or the token afterwards.
C18_ProbeResultsCached ==
    [][ (gret'.op \in GuardOps /\ host' = host)
          => /\ guard.ykman # "None"
                   => /\ guard'.ykman = guard.ykman
                      /\ \A i \in 1..Len(gret'.calls) : gret'.calls[i] # "version"
                      /\ gret'.op = "check_ykman_installed"
                            => gret'.value = (guard.ykman = "True") /\ gret'.calls = <<>>
             /\ guard.present # "None"
                   => /\ guard'.present = guard.present
                      /\ \A i \in 1..Len(gret'.calls) : gret'.calls[i] # "info"
                      /\ gret'.op = "check_yubikey_present"
                            => gret'.value = (guard.present = "True") /\ gret'.calls = <<>> ]_vars

C18_Witness ==
    /\ gret.op = "check_yubikey_present"
    /\ gret.value
    /\ gret.calls = <<>>
    /\ guard.present = "True"
    /\ guard.ykman = "True"
    /\ host = [tool |-> "missing", device |-> FALSE]

\* C19: is_available returns, and returns True exactly when the feature is
\* enabled, the ykman tool is installed and a token is detected; a disabled
\* feature, a missing tool and an absent token each give False.
C19_IsAvailableFailsClosed ==
    gret.op = "is_available"
        => /\ gret.status = "ok"
           /\ gret.value <=> (guard.enabled /\ guard.ykman = "True" /\ guard.present = "True")

\* C20: verify_pin and change_pin never raise; they return False on every
\* failure, also when the ykman command exits non-zero or cannot be run, and
\* True only when the ykman command succeeded.
C20_PinCommandsNeverRaise ==
    gret.op \in {"verify_pin", "change_pin"}
        => /\ gret.status = "ok"
           /\ gret.value => gret.run = "ok"
           /\ gret.run \in {"nonzero", "missing"} => ~gret.value

\* C14: whenever the RAM-backed candidate exists and is writable, every
\* get_secure_temp_dir call returns it, under any interleaving of the
\* calls of several processes, and no marker file is left once the calls
\* have returned.
C14_ProbeFindsWritableShm ==
    /\ \A p \in Probers :
          (tempEnv = LinuxShm /\ probePc[p] \in ProbeResults) => probePc[p] = "shm"
    /\ (\A p \in Probers : probePc[p] # "touched") => ~markerFile

\* The temp paths a session holds are files it created and that only it
\* has written.
OwnTempsOnly ==
    \A p \in Sessions : \A k \in TempKinds : \A f \in tmpFiles :
        (loc[p][k] # 0 /\ f.kind = k /\ f.id = loc[p][k])
            => f.creator = p /\ f.writer \in {0, p}

C17_IdentityFileRemoved ==
    \A f \in tmpFiles :
        f.kind = "identity" => pc[f.creator] \in {"ident_write", "unwrap"}

\* C21: on one MockYubiKeyManager, decrypt_age_key of every blob returned so
\* far yields the key passed to the call that produced it, and
\* decrypt_age_key of a blob the instance did not produce raises YubiKeyError.
C21_MockRoundTrip ==
    /\ \A j \in 1..Len(mockIssued) :
          mock_decrypt_age_key(mockKeys, mockIssued[j].blob)
              = [status |-> "ok", value |-> mockIssued[j].key]
    /\ \A j, l \in 1..Len(mockIssued) :
          mockIssued[j].blob = mockIssued[l].blob => j = l
    /\ (mret.op = "decrypt_age_key" /\ ~mret.produced) => mret.status = "YubiKeyError"

\* The round-trip half of C21 alone
MockIssuedRoundTrip ==
    \A j \in 1..Len(mockIssued) :
        mock_decrypt_age_key(mockKeys, mockIssued[j].blob)
            = [status |-> "ok", value |-> mockIssued[j].key]

\* The value in effect for setting s by the order explicit override,
\* environment, config file, built-in default.
InEffect(arg, env_val, file_val, default) ==
    IF arg # NoneStr THEN ExpandUser(arg)
    ELSE IF Truthy(env_val) THEN ExpandUser(env_val)
    ELSE IF Truthy(file_val) THEN ExpandUser(file_val)
    ELSE default

\* C22: the vault directory and the key file of a constructed Vault, and the
\* other settings of its configuration, are the explicit override if one was
\* passed, else the environment value, else the config-file value, else the
\* built-in default, for the snapshot the configuration was resolved from.
C22_ResolutionOrder ==
    vret.op = "Vault" =>
        LET e == vret.cfg.env
            f == vret.cfg.file
            dir == InEffect(vret.dir_arg, e["vault_dir"], f["vault_dir"],
                            ExpandUser(DEFAULT_VAULT_DIR))
        IN /\ vret.vault_dir = dir
           /\ vret.key_file = InEffect(vret.key_arg, e["key_file"], f["key_file"],
                                       Join(dir, "key.txt"))
           /\ vret.cfg.values = load_config(e, f)

C24_FailFastOnMissingInput ==
    [][ (ret'.op \in {"encrypt", "decrypt", "decrypt_to_string"} /\ ret'.noInput) =>
            /\ ret'.status = "VaultCryptoError"
            /\ ret'.tmpS = 0 /\ ret'.tmpK = 0
            /\ ret'.route = "none" /\ ret'.data = 0
            /\ UNCHANGED <<keyFile, pubFile, backupFile, cipherFile, tmpSecrets, tmpKeys>> ]_vars

\* decrypt was called on a missing file while the key file was wrapped
C24_Witness ==
    /\ ret.op = "decrypt" /\ ret.noInput /\ ret.status = "VaultCryptoError"
    /\ keyFile.depth = 1 /\ ~cipherFile.exists

\* C25: for every registered command name, converting it to a tool name and
\* back gives the same name, two registered commands never share a tool
\* name, and a tool call is dispatched to the command its name was built
\* from.
C25_ToolNameRoundTrip ==
    /\ \A c \in mcpCommands : command_from_tool_name(tool_name_from_command(c)) = c
    /\ \A c, d \in mcpCommands :
          tool_name_from_command(c) = tool_name_from_command(d) => c = d
    /\ mcpRet.op = "call_tool" => mcpRet.to = mcpRet.from /\ mcpRet.status = "ok"

\* C26: a decrypt or decrypt_to_string call, however it ends, leaves the
\* key file as it was and removes no temp key file that existed before the
\* call; when the key file holds the plaintext identity the call creates no
\* temp key file.
C26_DecryptKeepsKeyFile ==
    [][ ret'.op \in {"decrypt", "decrypt_to_string"} =>
            /\ keyFile' = keyFile
            /\ tmpKeys \subseteq tmpKeys'
            /\ IsPlaintextIdentity(keyFile) => (ret'.tmpK = 0 /\ tmpKeys' = tmpKeys) ]_vars

\* decrypt unwrapped the key into a temp key file, used it and removed it,
\* and the wrapped key file is still there
C26_Witness ==
    /\ ret.op = "decrypt" /\ ret.status = "ok" /\ ret.route = "unwrap"
    /\ ret.tmpK # 0 /\ ret.tmpK \notin tmpKeys
    /\ keyFile.exists /\ keyFile.depth = 1

\* decrypt_to_string used a plaintext key file directly
C26_WitnessPlain ==
    /\ ret.op = "decrypt_to_string" /\ ret.status = "ok" /\ ret.route = "direct"
    /\ ret.tmpK = 0 /\ IsPlaintextIdentity(keyFile)

\* C27: whatever wrap operations have run, a wrapped key file holds the key
\* wrapped exactly once and key.txt.backup holds the plaintext identity of
\* that key.
C27_WrapOnlyPlaintext ==
    (keyFile.exists /\ keyFile.depth >= 1) =>
        /\ keyFile.depth = 1
        /\ HasMarker(backupFile)
        /\ backupFile.kid = keyFile.kid

\* C28: when a session whose vault.decrypt produced the temp secrets file
\* has ended, on whatever path, cleanup has run secure_delete on that file
\* and the file is gone.
C28_SessionRemovesTempSecrets ==
    (csPc = "exited" /\ csOut.produced) => (~csTemp /\ csOut.cleanups >= 1)

\* C29: cmd_encrypt removes the plaintext original only when Vault.encrypt
\* has returned, and then the encrypted output holds that plaintext; when
\* encryption fails the original is left as it was.
C29_ShredOnlyAfterEncrypt ==
    [][ ret'.op = "cmd_encrypt" =>
            /\ (plainFile.exists /\ ~plainFile'.exists) =>
                  /\ ret'.status = "ok"
                  /\ cipherFile'.exists
                  /\ cipherFile'.data = plainFile.data
            /\ ret'.status # "ok" => plainFile' = plainFile ]_vars

\* cmd_encrypt --shred encrypted the file and erased the original
C29_Witness ==
    /\ ret.op = "cmd_encrypt" /\ ret.status = "ok"
    /\ ret.existed /\ ret.calls # <<>>
    /\ ~plainFile.exists
    /\ cipherFile.exists /\ cipherFile.data = ret.data

\* RLIM_INFINITY as resource.getrlimit reports it
Unlimited(soft) == soft = -1

\* C30: mlock_file calls libc.mlock for every existing, mappable file whose
\* size does not exceed the RLIMIT_MEMLOCK soft limit, an unlimited soft
\* limit (RLIM_INFINITY, -1) counting as no size cap.
C30_UnlimitedMeansAvailable ==
    (/\ ml.op = "mlock_file"
     /\ ml.in.rlimitOk /\ ml.in.exists /\ ml.in.mapOk /\ ml.in.size > 0
     /\ (Unlimited(ml.in.soft) \/ ml.in.size <= ml.in.soft))
        => ml.attempt

====
